---- MODULE Spec2Model ----
(***************************************************************************)
(* Model of package ctxkey (src/context.go): typed keys over Go's          *)
(* context.Context.  A context is an immutable chain of (key, value)       *)
(* nodes; nodes[i] is the valueCtx made by the i-th context.WithValue      *)
(* call and 0 is context.Background().  boxes[b] is the value field of     *)
(* the b-th allocated Box[V].                                              *)
(***************************************************************************)
EXTENDS Integers, Sequences, FiniteSets, TLC

\* Largest number of valueCtx nodes a behaviour allocates.
MaxNodes == 3

\* Values of a value type V are numbers; Zero stands for V's zero value
\* ("" for string, nil for error).
Zero == 0

\* The keys a program may construct.  variant is the Go type of the key,
\* vtype its type argument V, defaultValue the constructor's argument
\* (unused by Key[V], which is struct{}), vals the values the program
\* passes to the key's Set.
KeyDefs ==
  [ P1 |-> [variant |-> "Key", vtype |-> "string",
            defaultValue |-> 0, vals |-> {0, 1, 2}],
    P2 |-> [variant |-> "Key", vtype |-> "string",
            defaultValue |-> 0, vals |-> {0, 1, 2}],
    P3 |-> [variant |-> "Key", vtype |-> "error",
            defaultValue |-> 0, vals |-> {0, 1, 2}],
    D1 |-> [variant |-> "DefaultingKey", vtype |-> "string",
            defaultValue |-> 1, vals |-> {0, 1, 2}],
    D2 |-> [variant |-> "DefaultingKey", vtype |-> "string",
            defaultValue |-> 1, vals |-> {0, 1, 2}],
    D3 |-> [variant |-> "DefaultingKey", vtype |-> "string",
            defaultValue |-> 0, vals |-> {0, 1, 2}],
    D4 |-> [variant |-> "DefaultingKey", vtype |-> "error",
            defaultValue |-> 1, vals |-> {0, 1, 2}],
    B1 |-> [variant |-> "BoxedKey", vtype |-> "string",
            defaultValue |-> 1, vals |-> {0, 2}],
    B2 |-> [variant |-> "BoxedKey", vtype |-> "string",
            defaultValue |-> 1, vals |-> {2}],
    key1 |-> [variant |-> "Key", vtype |-> "string",
              defaultValue |-> 0, vals |-> {1}],
    key2 |-> [variant |-> "DefaultingKey", vtype |-> "string",
              defaultValue |-> 0, vals |-> {2}],
    key3 |-> [variant |-> "BoxedKey", vtype |-> "string",
              defaultValue |-> 0, vals |-> {1, 2}],
    B3 |-> [variant |-> "BoxedKey", vtype |-> "int",
            defaultValue |-> 0, vals |-> {1, 2}] ]

AllKeys == DOMAIN KeyDefs

\* The sets of keys the modelled programs construct before running; key1,
\* key2 and key3 are those of TestWith.
Programs ==
  { {"P1", "P2"}, {"P1", "P3"}, {"P1", "D1"}, {"key1", "B1"},
    {"D1", "D2"}, {"D3", "D4"}, {"B1", "B2"} }

WithPrograms == { {"key1", "key2", "key3"} }

\* Largest number of nodes of the scope a composed function is called on.
MaxBase == 1

VARIABLES
  keys,     \* the keys the program constructed
  aliased,  \* whether the build gave distinct zero-size allocations one address
  nodes,    \* the valueCtx nodes allocated so far
  boxes,    \* the Box[V] cells allocated so far
  origin,   \* history: origin[i] is the call that allocated nodes[i] (with the
            \* value set, for a Plain or Defaulting Key)
  last,     \* history: the last call, with its arguments and result
  tasks     \* the goroutines running BoxedKey.Set in parallel, and the words
            \* of memory of the Cells they write

vars == <<keys, aliased, nodes, boxes, origin, last, tasks>>

Variant(k) == KeyDefs[k].variant
VType(k) == KeyDefs[k].vtype
DefaultValue(k) == KeyDefs[k].defaultValue
Vals(k) == KeyDefs[k].vals

PlainKeys == {k \in AllKeys : Variant(k) = "Key"}
DefaultingKeys == {k \in AllKeys : Variant(k) = "DefaultingKey"}
BoxedKeys == {k \in AllKeys : Variant(k) = "BoxedKey"}

\* error is an interface type; string is a concrete type.
IsInterface(t) == t = "error"

\* Key[V] is struct{}: an allocation of size zero.  DefaultingKey[V] and
\* BoxedKey[V] hold a V and have a size.
ZeroSized(k) == Variant(k) = "Key"

\* The address New / NewWithDefault / NewBoxedWithDefault returns.  Go
\* leaves open whether pointers to distinct zero-size variables are equal.
Addr(k) == IF ZeroSized(k) /\ aliased THEN "zerobase" ELSE k

\* A key as the interface value context.WithValue and ctx.Value compare:
\* its dynamic type *Variant[V] and its pointer.
KeyIdentity(k) == <<Variant(k), VType(k), Addr(k)>>

\* Interface values (Go's any): a dynamic type and a datum; NilAny is nil.
NilAny == [dyn |-> "nil", v |-> 0]

\* Conversion of a V to any, as done when val is passed to
\* context.WithValue: a nil interface value converts to the nil any.
ToAny(t, v) ==
  IF IsInterface(t)
    THEN IF v = Zero THEN NilAny ELSE [dyn |-> "errT", v |-> v]
    ELSE [dyn |-> t, v |-> v]

\* The type assertion a.(V), as <<value, ok>>.
AssertV(t, a) ==
  IF a = NilAny THEN <<Zero, FALSE>>
  ELSE IF IsInterface(t) THEN <<a.v, TRUE>>
  ELSE IF a.dyn = t THEN <<a.v, TRUE>>
  ELSE <<Zero, FALSE>>

BoxType(t) == <<"*Box", t>>

\* &Box[V]{...} stored as any: a non-nil pointer to cell b.
BoxAny(t, b) == [dyn |-> BoxType(t), v |-> b]

\* The type assertion a.(*Box[V]), as <<cell, ok>>.
AssertBox(t, a) ==
  IF a = NilAny THEN <<0, FALSE>>
  ELSE IF a.dyn = BoxType(t) THEN <<a.v, TRUE>>
  ELSE <<0, FALSE>>

\* context.WithValue(ctx, key, val): a new node atop ctx.
WithValue(ns, c, id, a) == Append(ns, [parent |-> c, key |-> id, val |-> a])

\* ctx.Value(key): walk the chain from c to the background context.
RECURSIVE CtxValue(_, _, _)
CtxValue(ns, c, id) ==
  IF c = 0 THEN NilAny
  ELSE IF ns[c].key = id THEN ns[c].val
  ELSE CtxValue(ns, ns[c].parent, id)

----
\* Key[V]

KeySet(ns, k, c, val) == WithValue(ns, c, KeyIdentity(k), ToAny(VType(k), val))

KeyValue(ns, k, c) == AssertV(VType(k), CtxValue(ns, c, KeyIdentity(k)))

\* MustValue, as [panic, v].
KeyMustValue(ns, k, c) ==
  LET r == KeyValue(ns, k, c)
  IN  IF ~r[2] THEN [panic |-> TRUE, v |-> Zero]
      ELSE [panic |-> FALSE, v |-> r[1]]

----
\* DefaultingKey[V]

DefaultingKeySet(ns, k, c, val) ==
  WithValue(ns, c, KeyIdentity(k), ToAny(VType(k), val))

DefaultingKeyValue(ns, k, c) ==
  LET r == AssertV(VType(k), CtxValue(ns, c, KeyIdentity(k)))
  IN  IF ~r[2] THEN DefaultValue(k) ELSE r[1]

\* MustNonEmptyValue, as [panic, v].
DefaultingKeyMustNonEmptyValue(ns, k, c) ==
  LET v == DefaultingKeyValue(ns, k, c)
  IN  IF v = Zero THEN [panic |-> TRUE, v |-> Zero]
      ELSE [panic |-> FALSE, v |-> v]

----
\* BoxedKey[V]; a heap h holds nodes and boxes, a result [nodes, boxes, ctx]
\* is the heap after a call with the context the call returned.

\* Mutant: Set always layers a new Cell, as the other keys' Set layers a
\* value, and never writes a Cell the scope already holds.
BoxedKeySet_AlwaysLayer(h, k, c, val) ==
  [nodes |-> WithValue(h.nodes, c, KeyIdentity(k),
                       BoxAny(VType(k), Len(h.boxes) + 1)),
   boxes |-> Append(h.boxes, val),
   ctx |-> Len(h.nodes) + 1]

\* Mutant: the Cell that Set layers holds the fallback, as SetBox's does,
\* and not val.
BoxedKeySet_LayerDefault(h, k, c, val) ==
  LET handle == AssertBox(VType(k), CtxValue(h.nodes, c, KeyIdentity(k)))
  IN  IF handle[2]
        THEN [nodes |-> h.nodes,
              boxes |-> [h.boxes EXCEPT ![handle[1]] = val],
              ctx |-> c]
        ELSE [nodes |-> WithValue(h.nodes, c, KeyIdentity(k),
                                  BoxAny(VType(k), Len(h.boxes) + 1)),
              boxes |-> Append(h.boxes, DefaultValue(k)),
              ctx |-> Len(h.nodes) + 1]

\* Mutant: after writing the Cell the scope holds, Set layers that Cell again
\* and returns the new scope, as its other path does.
BoxedKeySet_Relayer(h, k, c, val) ==
  LET handle == AssertBox(VType(k), CtxValue(h.nodes, c, KeyIdentity(k)))
  IN  IF handle[2]
        THEN [nodes |-> WithValue(h.nodes, c, KeyIdentity(k),
                                  BoxAny(VType(k), handle[1])),
              boxes |-> [h.boxes EXCEPT ![handle[1]] = val],
              ctx |-> Len(h.nodes) + 1]
        ELSE [nodes |-> WithValue(h.nodes, c, KeyIdentity(k),
                                  BoxAny(VType(k), Len(h.boxes) + 1)),
              boxes |-> Append(h.boxes, val),
              ctx |-> Len(h.nodes) + 1]

\* Mutant: the write to a Cell the scope holds stores the key's fallback
\* and not val.
BoxedKeySet_WriteDefault(h, k, c, val) ==
  LET handle == AssertBox(VType(k), CtxValue(h.nodes, c, KeyIdentity(k)))
  IN  IF handle[2]
        THEN [nodes |-> h.nodes,
              boxes |-> [h.boxes EXCEPT ![handle[1]] = DefaultValue(k)],
              ctx |-> c]
        ELSE [nodes |-> WithValue(h.nodes, c, KeyIdentity(k),
                                  BoxAny(VType(k), Len(h.boxes) + 1)),
              boxes |-> Append(h.boxes, val),
              ctx |-> Len(h.nodes) + 1]

BoxedKeySet(h, k, c, val) ==
  LET handle == AssertBox(VType(k), CtxValue(h.nodes, c, KeyIdentity(k)))
  IN  IF handle[2]
        THEN [nodes |-> h.nodes,
              boxes |-> [h.boxes EXCEPT ![handle[1]] = val],
              ctx |-> c]
        ELSE [nodes |-> WithValue(h.nodes, c, KeyIdentity(k),
                                  BoxAny(VType(k), Len(h.boxes) + 1)),
              boxes |-> Append(h.boxes, val),
              ctx |-> Len(h.nodes) + 1]

\* Mutant: SetBox resets and layers again the Cell the scope already holds,
\* when there is one.
BoxedKeySetBox_Reuse(h, k, c) ==
  LET handle == AssertBox(VType(k), CtxValue(h.nodes, c, KeyIdentity(k)))
  IN  IF handle[2]
        THEN [nodes |-> WithValue(h.nodes, c, KeyIdentity(k),
                                  BoxAny(VType(k), handle[1])),
              boxes |-> [h.boxes EXCEPT ![handle[1]] = DefaultValue(k)],
              ctx |-> Len(h.nodes) + 1]
        ELSE [nodes |-> WithValue(h.nodes, c, KeyIdentity(k),
                                  BoxAny(VType(k), Len(h.boxes) + 1)),
              boxes |-> Append(h.boxes, DefaultValue(k)),
              ctx |-> Len(h.nodes) + 1]

BoxedKeySetBox(h, k, c) ==
  [nodes |-> WithValue(h.nodes, c, KeyIdentity(k),
                       BoxAny(VType(k), Len(h.boxes) + 1)),
   boxes |-> Append(h.boxes, DefaultValue(k)),
   ctx |-> Len(h.nodes) + 1]

BoxedKeyValue(h, k, c) ==
  LET handle == AssertBox(VType(k), CtxValue(h.nodes, c, KeyIdentity(k)))
  IN  IF ~handle[2] THEN DefaultValue(k) ELSE h.boxes[handle[1]]

----
\* The functions of type func(context.Context) context.Context that the
\* With methods and With return, as data; Invoke calls one.

KeyWith(k, val) == [f |-> "Key.With", key |-> k, val |-> val, values |-> <<>>]

DefaultingKeyWith(k, val) ==
  [f |-> "DefaultingKey.With", key |-> k, val |-> val, values |-> <<>>]

BoxedKeyWith(k, val) ==
  [f |-> "BoxedKey.With", key |-> k, val |-> val, values |-> <<>>]

BoxedKeyWithBox(k) ==
  [f |-> "BoxedKey.WithBox", key |-> k, val |-> 0, values |-> <<>>]

With(values) == [f |-> "With", key |-> "none", val |-> 0, values |-> values]

RECURSIVE Invoke(_, _, _)
RECURSIVE WithLoop(_, _, _)

\* Mutant: the loop calls f(ctx) without assigning the result to ctx, so
\* every function sees the scope With's function was called on.
RECURSIVE WithLoop_NoAssign(_, _, _)
WithLoop_NoAssign(values, h, ctx) ==
  IF values = <<>> THEN [nodes |-> h.nodes, boxes |-> h.boxes, ctx |-> ctx]
  ELSE LET r == Invoke(Head(values), h, ctx)
           rest == WithLoop_NoAssign(Tail(values), r, ctx)
       IN  IF Len(values) = 1 THEN r ELSE rest

\* The body of With's function: for _, f := range values { ctx = f(ctx) }.
WithLoop(values, h, ctx) ==
  IF values = <<>> THEN [nodes |-> h.nodes, boxes |-> h.boxes, ctx |-> ctx]
  ELSE LET r == Invoke(Head(values), h, ctx)
       IN  WithLoop(Tail(values), r, r.ctx)

Invoke(fn, h, ctx) ==
  CASE fn.f = "Key.With" ->
         [nodes |-> KeySet(h.nodes, fn.key, ctx, fn.val),
          boxes |-> h.boxes, ctx |-> Len(h.nodes) + 1]
    [] fn.f = "DefaultingKey.With" ->
         [nodes |-> DefaultingKeySet(h.nodes, fn.key, ctx, fn.val),
          boxes |-> h.boxes, ctx |-> Len(h.nodes) + 1]
    [] fn.f = "BoxedKey.With" -> BoxedKeySet(h, fn.key, ctx, fn.val)
    [] fn.f = "BoxedKey.WithBox" -> BoxedKeySetBox(h, fn.key, ctx)
    [] fn.f = "With" -> WithLoop(fn.values, h, ctx)

----
\* The program: construction, then any sequence of calls on any context.

Heap == [nodes |-> nodes, boxes |-> boxes]
Ctxs == 0 .. Len(nodes)

NoOp ==
  [op |-> "none", key |-> "none", in |-> 0, out |-> 0, val |-> 0, values |-> <<>>]

\* No goroutine was started: the program is one call chain.
NoTasks == [mem |-> <<>>, run |-> <<>>]

\* Two zero-size keys of one type exist only in some programs; elsewhere
\* the address choice cannot be observed.
TwoZeroSized(ks) ==
  \E a \in ks, b \in ks : a # b /\ ZeroSized(a) /\ ZeroSized(b) /\ VType(a) = VType(b)

Init ==
  /\ keys \in Programs
  /\ aliased \in (IF TwoZeroSized(keys) THEN BOOLEAN ELSE {FALSE})
  /\ nodes = <<>>
  /\ boxes = <<>>
  /\ origin = <<>>
  /\ last = NoOp
  /\ tasks = NoTasks

CallKeySet(k, c, val) ==
  /\ Variant(k) = "Key"
  /\ Len(nodes) < MaxNodes
  /\ nodes' = KeySet(nodes, k, c, val)
  /\ origin' = Append(origin, [op |-> "Set", key |-> k, val |-> val])
  /\ last' = [op |-> "Set", key |-> k, in |-> c, out |-> Len(nodes) + 1,
              val |-> val, values |-> <<>>]
  /\ UNCHANGED <<keys, aliased, boxes, tasks>>

CallDefaultingKeySet(k, c, val) ==
  /\ Variant(k) = "DefaultingKey"
  /\ Len(nodes) < MaxNodes
  /\ nodes' = DefaultingKeySet(nodes, k, c, val)
  /\ origin' = Append(origin, [op |-> "Set", key |-> k, val |-> val])
  /\ last' = [op |-> "Set", key |-> k, in |-> c, out |-> Len(nodes) + 1,
              val |-> val, values |-> <<>>]
  /\ UNCHANGED <<keys, aliased, boxes, tasks>>

CallBoxedKeySet(k, c, val) ==
  /\ Variant(k) = "BoxedKey"
  /\ LET r == BoxedKeySet(Heap, k, c, val)
     IN  /\ Len(r.nodes) <= MaxNodes
         /\ nodes' = r.nodes
         /\ boxes' = r.boxes
         /\ origin' = IF Len(r.nodes) > Len(nodes)
                         THEN Append(origin, [op |-> "Set", key |-> k, val |-> Zero])
                         ELSE origin
         /\ last' = [op |-> "Set", key |-> k, in |-> c, out |-> r.ctx,
                     val |-> val, values |-> <<>>]
  /\ UNCHANGED <<keys, aliased, tasks>>

CallBoxedKeySetBox(k, c) ==
  /\ Variant(k) = "BoxedKey"
  /\ Len(nodes) < MaxNodes
  /\ LET r == BoxedKeySetBox(Heap, k, c)
     IN  /\ nodes' = r.nodes
         /\ boxes' = r.boxes
         /\ origin' = Append(origin, [op |-> "SetBox", key |-> k, val |-> Zero])
         /\ last' = [op |-> "SetBox", key |-> k, in |-> c, out |-> r.ctx,
                     val |-> DefaultValue(k), values |-> <<>>]
  /\ UNCHANGED <<keys, aliased, tasks>>

Next ==
  \/ \E k \in keys, c \in Ctxs : \E val \in Vals(k) : CallKeySet(k, c, val)
  \/ \E k \in keys, c \in Ctxs : \E val \in Vals(k) : CallDefaultingKeySet(k, c, val)
  \/ \E k \in keys, c \in Ctxs : \E val \in Vals(k) : CallBoxedKeySet(k, c, val)
  \/ \E k \in keys, c \in Ctxs : CallBoxedKeySetBox(k, c)

Spec == Init /\ [][Next]_vars

----
\* A program that builds a scope of at most MaxBase nodes and then calls one
\* function made by With on a scope.

\* The functions the With methods of key k give.
Leaves(k) ==
  CASE Variant(k) = "Key" -> {KeyWith(k, v) : v \in Vals(k)}
    [] Variant(k) = "DefaultingKey" -> {DefaultingKeyWith(k, v) : v \in Vals(k)}
    [] Variant(k) = "BoxedKey" ->
         {BoxedKeyWith(k, v) : v \in Vals(k)} \cup {BoxedKeyWithBox(k)}

LeafFns == UNION {Leaves(k) : k \in keys}

\* The arguments given to With: up to three functions, flat or nested.
WithArgs ==
  {<<>>}
    \cup {<<a>> : a \in LeafFns}
    \cup {<<a, b>> : a \in LeafFns, b \in LeafFns}
    \cup {<<a, b, c>> : a \in LeafFns, b \in LeafFns, c \in LeafFns}
    \cup {<<With(<<a, b>>), c>> : a \in LeafFns, b \in LeafFns, c \in LeafFns}
    \cup {<<a, With(<<b, c>>)>> : a \in LeafFns, b \in LeafFns, c \in LeafFns}

\* The functions of a With argument list in the order written, nesting
\* removed.
RECURSIVE Flat(_)
Flat(values) ==
  IF values = <<>> THEN <<>>
  ELSE IF Head(values).f = "With"
    THEN Flat(Head(values).values) \o Flat(Tail(values))
    ELSE <<Head(values)>> \o Flat(Tail(values))

\* history: the calls that allocate the nodes added when the functions ops
\* run one after the other from result r.
RECURSIVE Allocs(_, _)
Allocs(ops, r) ==
  IF ops = <<>> THEN <<>>
  ELSE LET t == Invoke(Head(ops), r, r.ctx)
           call == [op |-> IF Head(ops).f = "BoxedKey.WithBox" THEN "SetBox" ELSE "Set",
                    key |-> Head(ops).key,
                    val |-> IF Variant(Head(ops).key) = "BoxedKey" THEN Zero
                            ELSE Head(ops).val]
       IN  (IF Len(t.nodes) > Len(r.nodes) THEN <<call>> ELSE <<>>)
             \o Allocs(Tail(ops), t)

InitWith ==
  /\ keys \in WithPrograms
  /\ aliased = FALSE
  /\ nodes = <<>>
  /\ boxes = <<>>
  /\ origin = <<>>
  /\ last = NoOp
  /\ tasks = NoTasks

Build ==
  /\ last.op # "With"
  /\ Next
  /\ Len(nodes') <= MaxBase

CallWith(values, c) ==
  /\ \E r \in {Invoke(With(values), Heap, c)} :
         /\ nodes' = r.nodes
         /\ boxes' = r.boxes
         /\ origin' = origin \o Allocs(Flat(values),
                                       [nodes |-> nodes, boxes |-> boxes, ctx |-> c])
         /\ last' = [op |-> "With", key |-> "none", in |-> c, out |-> r.ctx,
                     val |-> 0, values |-> values]
  /\ UNCHANGED <<keys, aliased, tasks>>

\* The program ends with the call of the composed function.
NextWith ==
  \/ Build
  \/ /\ last.op # "With"
     /\ \E values \in WithArgs, c \in Ctxs : CallWith(values, c)

SpecWith == InitWith /\ [][NextWith]_vars

----
\* What the claims speak of: a scope's ancestry and the calls recorded in it.

\* The nodes of c's chain, c included.
RECURSIVE Ancestry(_)
Ancestry(c) == IF c = 0 THEN {} ELSE {c} \cup Ancestry(nodes[c].parent)

\* The most recent node in c's ancestry that a call on key k allocated
\* (0 when there is none).
RECURSIVE MostRecent(_, _)
MostRecent(k, c) ==
  IF c = 0 THEN 0
  ELSE IF origin[c].key = k THEN c
  ELSE MostRecent(k, nodes[c].parent)

Plain == keys \cap PlainKeys
Defaulting == keys \cap DefaultingKeys
Boxed == keys \cap BoxedKeys

----
\* C1: on every scope whose most recent Set for a Plain Key K set v (other
\* keys' values attached before or after), K's Value returns (v, true).
C1_PlainRoundTrip ==
  \A k \in Plain, c \in Ctxs :
    MostRecent(k, c) # 0 =>
      KeyValue(nodes, k, c) = <<origin[MostRecent(k, c)].val, TRUE>>

\* C2: the lookup of a key B returns only what was written under B: a value
\* B's Value finds in a scope was set by a call on B in that scope's ancestry.
C2_KeyIsolation ==
  /\ \A b \in Plain, c \in Ctxs :
       KeyValue(nodes, b, c)[2] =>
         \E n \in Ancestry(c) :
           origin[n].key = b /\ origin[n].val = KeyValue(nodes, b, c)[1]
  /\ \A b \in Defaulting, c \in Ctxs :
       \/ DefaultingKeyValue(nodes, b, c) = DefaultValue(b)
       \/ \E n \in Ancestry(c) :
            origin[n].key = b /\ origin[n].val = DefaultingKeyValue(nodes, b, c)
  /\ \A b \in Boxed, c \in Ctxs :
       LET handle == AssertBox(VType(b), CtxValue(nodes, c, KeyIdentity(b)))
       IN  handle[2] =>
             \E n \in Ancestry(c) :
               origin[n].key = b /\ nodes[n].val = BoxAny(VType(b), handle[1])

\* C3: a Defaulting Key's Value returns the fallback when no Set for the key
\* is in the scope's ancestry, and else the value of the most recent one.
C3_DefaultingRead ==
  \A k \in Defaulting, c \in Ctxs :
    DefaultingKeyValue(nodes, k, c) =
      IF MostRecent(k, c) = 0 THEN DefaultValue(k)
      ELSE origin[MostRecent(k, c)].val

\* C5: MustValue on a Plain Key panics on every scope with no Set for the
\* key in its ancestry, and else returns the most recently set value.
C5_MustValue ==
  \A k \in Plain, c \in Ctxs :
    KeyMustValue(nodes, k, c) =
      IF MostRecent(k, c) = 0 THEN [panic |-> TRUE, v |-> Zero]
      ELSE [panic |-> FALSE, v |-> origin[MostRecent(k, c)].val]

\* C6: MustNonEmptyValue panics exactly when the resolved value (the most
\* recent set value if any, else the fallback) is the zero value, and else
\* returns what Value returns.
C6_MustNonEmptyValue ==
  \A k \in Defaulting, c \in Ctxs :
    LET resolved == IF MostRecent(k, c) = 0 THEN DefaultValue(k)
                    ELSE origin[MostRecent(k, c)].val
    IN  DefaultingKeyMustNonEmptyValue(nodes, k, c) =
          IF resolved = Zero THEN [panic |-> TRUE, v |-> Zero]
          ELSE [panic |-> FALSE, v |-> DefaultingKeyValue(nodes, k, c)]

----
\* C9: the README's boxed-key example: SetBox was called on ctx and its
\* result dropped, then Set(ctx, v) is called on the same ctx; a read of the
\* key on ctx then yields v.
C9_ReadmeBoxUsage ==
  \A k \in Boxed :
    ( /\ last.op = "Set"
      /\ last.key = k
      /\ \E n \in 1 .. Len(nodes) :
           /\ origin[n].op = "SetBox"
           /\ origin[n].key = k
           /\ nodes[n].parent = last.in )
    => BoxedKeyValue(Heap, k, last.in) = last.val

----
\* The read of any key, as <<value, found>>.
Lookup(h, k, c) ==
  CASE Variant(k) = "Key" -> KeyValue(h.nodes, k, c)
    [] Variant(k) = "DefaultingKey" -> <<DefaultingKeyValue(h.nodes, k, c), TRUE>>
    [] Variant(k) = "BoxedKey" -> <<BoxedKeyValue(h, k, c), TRUE>>

\* The step is a call that layers a new node by Set on a Plain or Defaulting
\* Key or by SetBox.
AttachStep ==
  /\ Len(nodes') = Len(nodes) + 1
  /\ \/ last'.op = "SetBox"
     \/ last'.op = "Set" /\ Variant(last'.key) # "BoxedKey"

\* C10: Set on a Plain or Defaulting Key and SetBox leave every lookup of
\* every key on every scope that existed before the call as it was; the one
\* new scope is the returned one.
C10_AttachFrame ==
  [][ AttachStep =>
        /\ last'.out = Len(nodes')
        /\ \A k \in keys, c \in Ctxs : Lookup(Heap', k, c) = Lookup(Heap, k, c)
        /\ \A c \in 1 .. Len(nodes) : nodes'[c] = nodes[c]
        /\ \A b \in 1 .. Len(boxes) : boxes'[b] = boxes[b] ]_vars

\* SetBox was called on a scope where the key's Cell held a written value:
\* the scope keeps that value, the returned scope reads the fallback.
C10_Witness ==
  /\ last.op = "SetBox"
  /\ last.in # 0
  /\ BoxedKeyValue(Heap, last.key, last.in) # DefaultValue(last.key)
  /\ BoxedKeyValue(Heap, last.key, last.out) = DefaultValue(last.key)

----
\* The step is a Set on Boxed Key k with a scope that has no Cell for k.
AdHocSetStep(k) ==
  /\ last'.op = "Set"
  /\ last'.key = k
  /\ MostRecent(k, last'.in) = 0
  /\ vars' # vars

Siblings(c) ==
  IF c = 0 THEN {}
  ELSE {s \in 1 .. Len(nodes) : s # c /\ nodes[s].parent = nodes[c].parent}

----
\* Node n was allocated by SetBox on key k.
InstalledBy(k, n) == origin[n].op = "SetBox" /\ origin[n].key = k

\* The last call was Set(S', v) on key k with S' a scope SetBox returned.
SetOnInstalled(k) ==
  /\ last.op = "Set"
  /\ last.key = k
  /\ last.in # 0
  /\ InstalledBy(k, last.in)

\* Value(SetBox(S)) is the fallback, and Set(S', v) on S' = SetBox(S) is
\* seen on S' itself, whatever scope Set returned.
C4_OnInstalled ==
  \A k \in Boxed :
    /\ (last.op = "SetBox" /\ last.key = k) =>
         BoxedKeyValue(Heap, k, last.out) = DefaultValue(k)
    /\ SetOnInstalled(k) => BoxedKeyValue(Heap, k, last.in) = last.val

\* C4 as stated: Value(SetBox(S)) is the fallback; after Set(S', v) on
\* S' = SetBox(S), Value returns v on S' and on every scope derived from S'
\* afterward.
C4_PublishBackOnAllDerived ==
  /\ []C4_OnInstalled
  /\ [][ \A k \in Boxed :
           ( /\ SetOnInstalled(k)
             /\ Len(nodes') = Len(nodes) + 1
             /\ last.in \in Ancestry(nodes'[Len(nodes')].parent) )
           => BoxedKeyValue(Heap', k, Len(nodes')) = last.val ]_vars

\* Every scope whose nearest Cell for k is the one node n holds reads what n
\* reads.
C4_SharedWithDerived ==
  \A k \in Boxed, n \in 1 .. Len(nodes), d \in 1 .. Len(nodes) :
    (InstalledBy(k, n) /\ MostRecent(k, d) = n) =>
      BoxedKeyValue(Heap, k, d) = BoxedKeyValue(Heap, k, n)

\* C4, amended: Value(SetBox(S)) is the fallback; after Set(S', v) on
\* S' = SetBox(S), Value returns v on S' and on every scope derived from S'
\* with no later SetBox for the key in between, until the next Set on the
\* key through a scope that shares the Cell.
C4_PublishBack ==
  /\ [](C4_OnInstalled /\ C4_SharedWithDerived)
  /\ [][ \A k \in Boxed, n \in 1 .. Len(nodes) :
           ( /\ InstalledBy(k, n)
             /\ BoxedKeyValue(Heap', k, n) # BoxedKeyValue(Heap, k, n) )
           => /\ last'.op = "Set"
              /\ last'.key = k
              /\ MostRecent(k, last'.in) = n ]_vars

\* A scope was derived from S' = SetBox(S) after a Set on S' wrote a value
\* other than the fallback, and reads that value.
C4_Witness ==
  \E k \in Boxed, n \in 1 .. Len(nodes) :
    /\ InstalledBy(k, n)
    /\ BoxedKeyValue(Heap, k, n) # DefaultValue(k)
    /\ last.in = n
    /\ last.out = Len(nodes)
    /\ last.out # n
    /\ last.key # k
    /\ BoxedKeyValue(Heap, k, last.out) = BoxedKeyValue(Heap, k, n)

----
\* op applied to the scope and heap that r holds.
Then(r, op) == Invoke(op, r, r.ctx)

\* opn(...op1(S)...) for the at most three functions of ops.
Chained(ops, h, c) ==
  LET s0 == [nodes |-> h.nodes, boxes |-> h.boxes, ctx |-> c]
  IN  CASE Len(ops) = 0 -> s0
        [] Len(ops) = 1 -> Then(s0, ops[1])
        [] Len(ops) = 2 -> Then(Then(s0, ops[1]), ops[2])
        [] Len(ops) = 3 -> Then(Then(Then(s0, ops[1]), ops[2]), ops[3])

\* Both results read every key alike, on the returned scope and on every
\* scope of the heap.
SameEffect(r1, r2) ==
  /\ r1.ctx = r2.ctx
  /\ Len(r1.nodes) = Len(r2.nodes)
  /\ \A k \in keys, c \in 0 .. Len(r1.nodes) : Lookup(r1, k, c) = Lookup(r2, k, c)

\* C7: With(op1, ..., opn)(S) is opn(...op1(S)...); With(With(op1, op2), op3)
\* and With(op1, With(op2, op3)) have the same observed effect on S; With()
\* returns S and changes nothing.
C7_Composer ==
  [][ last'.op = "With" =>
        LET ops == Flat(last'.values)
            res == [nodes |-> nodes', boxes |-> boxes', ctx |-> last'.out]
        IN  /\ res = Chained(ops, Heap, last'.in)
            /\ Len(ops) = 0 => (last'.out = last'.in /\ Heap' = Heap)
            /\ Len(ops) = 3 =>
                 \A left \in {Invoke(With(<<With(<<ops[1], ops[2]>>), ops[3]>>),
                                      Heap, last'.in)},
                    right \in {Invoke(With(<<ops[1], With(<<ops[2], ops[3]>>)>>),
                                       Heap, last'.in)},
                    flat \in {Invoke(With(<<ops[1], ops[2], ops[3]>>), Heap, last'.in)} :
                   SameEffect(left, right) /\ SameEffect(flat, right) ]_vars

\* A nested With of three functions ran, as in TestWith: its second and
\* third functions wrote the Boxed Key's Cell, which the second allocated,
\* and the last write is the one read.
C7_Witness ==
  /\ last.op = "With"
  /\ Len(last.values) = 2
  /\ Len(Flat(last.values)) = 3
  /\ Flat(last.values)[2].f = "BoxedKey.With"
  /\ Flat(last.values)[3].f = "BoxedKey.With"
  /\ Flat(last.values)[2].val # Flat(last.values)[3].val
  /\ Len(nodes) = Len(origin)
  /\ last.out = Len(nodes)
  /\ BoxedKeyValue(Heap, Flat(last.values)[3].key, last.out) = Flat(last.values)[3].val

----
\* The Cell a Set or Value of Boxed Key k finds from scope c, as <<cell, ok>>.
CellOf(k, c) == AssertBox(VType(k), CtxValue(nodes, c, KeyIdentity(k)))

\* The step is a Set on Boxed Key k.
BoxedSetStep(k) ==
  /\ last'.op = "Set"
  /\ last'.key = k
  /\ vars' # vars

\* C11: a Set on a Boxed Key with a scope S that has a Cell for the key in
\* its ancestry writes the slot of the nearest such Cell, returns S and adds
\* no node and no Cell, and leaves every other Cell and every other key's
\* reads as they were; a Set layers a new Cell only when S's ancestry has no
\* Cell for the key.
C11_InPlaceSet ==
  [][ \A k \in Boxed :
        BoxedSetStep(k) =>
          LET n == MostRecent(k, last'.in)
          IN  IF n # 0
                THEN /\ last'.out = last'.in
                     /\ nodes' = nodes
                     /\ Len(boxes') = Len(boxes)
                     /\ nodes[n].val = BoxAny(VType(k), CellOf(k, n)[1])
                     /\ boxes'[CellOf(k, n)[1]] = last'.val
                     /\ \A b \in 1 .. Len(boxes) :
                          b # CellOf(k, n)[1] => boxes'[b] = boxes[b]
                     /\ \A j \in keys \ {k}, c \in Ctxs :
                          Lookup(Heap', j, c) = Lookup(Heap, j, c)
                ELSE /\ Len(nodes') = Len(nodes) + 1
                     /\ Len(boxes') = Len(boxes) + 1
                     /\ last'.out = Len(nodes')
                     /\ nodes'[last'.out].val = BoxAny(VType(k), Len(boxes')) ]_vars

\* A Set wrote a value other than the fallback through a scope whose Cell
\* for the key lies in a strict ancestor, below an entry of another key, and
\* another Cell exists.
C11_Witness ==
  /\ last.op = "Set"
  /\ last.key \in Boxed
  /\ last.in # 0
  /\ last.out = last.in
  /\ MostRecent(last.key, last.in) \notin {0, last.in}
  /\ Len(boxes) >= 2
  /\ last.val # DefaultValue(last.key)
  /\ BoxedKeyValue(Heap, last.key, last.in) = last.val

----
\* The scopes that descend from node n, n included.
Descendants(n) == {d \in 1 .. Len(nodes) : n \in Ancestry(d)}

\* C12 as stated: every descendant of the scope S' that SetBox returned
\* finds the Cell S' holds, whatever was layered in between, and a Set
\* through any descendant of S' is read on S' and on all its descendants.
C12_SharedByAllDescendants ==
  /\ [](\A k \in Boxed, n \in 1 .. Len(nodes) :
          InstalledBy(k, n) =>
            \A d \in Descendants(n) : CellOf(k, d) = CellOf(k, n))
  /\ [][ \A k \in Boxed, n \in 1 .. Len(nodes) :
           ( /\ InstalledBy(k, n)
             /\ BoxedSetStep(k)
             /\ last'.in \in Descendants(n) )
           => \A d \in Descendants(n) : BoxedKeyValue(Heap', k, d) = last'.val ]_vars

\* The descendants of node n whose nearest node of key k is n: no SetBox and
\* no Set for k layered another Cell in between.
Sharers(k, n) == {d \in Descendants(n) : MostRecent(k, d) = n}

\* C12, amended: every descendant of the node that introduced a Cell, with
\* no other Cell for the key layered in between (entries of other keys may
\* be), finds that same Cell, and a Set through one of them is read on the
\* introducing scope and on all such descendants.
C12_CellShared ==
  /\ [](\A k \in Boxed, n \in 1 .. Len(nodes) :
          origin[n].key = k =>
            /\ CellOf(k, n)[2]
            /\ \A d \in Sharers(k, n) : CellOf(k, d) = CellOf(k, n))
  /\ [][ \A k \in Boxed, n \in 1 .. Len(nodes) :
           ( /\ origin[n].key = k
             /\ BoxedSetStep(k)
             /\ last'.in \in Sharers(k, n) )
           => \A d \in Sharers(k, n) : BoxedKeyValue(Heap', k, d) = last'.val ]_vars

\* A Set through one descendant of S' = SetBox(S), with an entry of another
\* key in between, wrote a value other than the fallback that S' and
\* another descendant of S' read.
C12_Witness ==
  \E k \in Boxed, n \in 1 .. Len(nodes) :
    /\ InstalledBy(k, n)
    /\ last.op = "Set"
    /\ last.key = k
    /\ last.in \in Sharers(k, n) \ {n}
    /\ origin[last.in].key # k
    /\ last.val # DefaultValue(k)
    /\ BoxedKeyValue(Heap, k, n) = last.val
    /\ \E d \in Sharers(k, n) \ {n, last.in} :
         BoxedKeyValue(Heap, k, d) = last.val

----
\* A program that builds scopes of at most MaxRaceBase nodes in one call
\* chain and then runs two goroutines that each call Set on a Boxed Key,
\* with nothing ordering them; a step is one access to shared memory.

MaxRaceBase == 2

RacePrograms == { {"key1", "B1"}, {"key1", "B3"} }

\* The machine words of a V: an int is one word, a string is a header of
\* two (data pointer and length).  An access to one word is atomic; an
\* assignment of a wider value is one store per word, in any order.
WordsOf(t) == IF t = "int" THEN 1 ELSE 2

\* The words of the value v.
Words(t, v) == [i \in 1 .. WordsOf(t) |-> v]

\* The value a read of the words w gives: v from the words of v, and from
\* words of two values (one string's data with the other's length) a value
\* below zero, which is none of the values the program passes.
FromWords(w) == IF \A i \in DOMAIN w : w[i] = w[1] THEN w[1] ELSE -1

\* The value type of cell b.
CellType(b) ==
  VType(origin[CHOOSE n \in 1 .. Len(nodes) :
                 origin[n].key \in BoxedKeys /\ nodes[n].val.v = b].key)

\* go func() { k.Set(ctx, val) }(), about to run.
Task(k, c, val) ==
  [pc |-> "lookup", key |-> k, ctx |-> c, val |-> val,
   handle |-> <<0, FALSE>>, left |-> {}]

Tasks == 1 .. 2

InitRace ==
  /\ keys \in RacePrograms
  /\ aliased = FALSE
  /\ nodes = <<>>
  /\ boxes = <<>>
  /\ origin = <<>>
  /\ last = NoOp
  /\ tasks = NoTasks

BuildRace ==
  /\ tasks = NoTasks
  /\ Next
  /\ Len(nodes') <= MaxRaceBase

Fork(k, c1, v1, c2, v2) ==
  /\ Variant(k) = "BoxedKey"
  /\ v1 # v2
  /\ tasks' = [mem |-> [b \in 1 .. Len(boxes) |-> Words(CellType(b), boxes[b])],
               run |-> <<Task(k, c1, v1), Task(k, c2, v2)>>]
  /\ UNCHANGED <<keys, aliased, nodes, boxes, origin, last>>

\* handle, ok := ctx.Value(k).(*Box[V])
TaskLookup(t) ==
  LET me == tasks.run[t]
      handle == AssertBox(VType(me.key), CtxValue(nodes, me.ctx, KeyIdentity(me.key)))
  IN  /\ me.pc = "lookup"
      /\ tasks' = [tasks EXCEPT
                     !.run[t].handle = handle,
                     !.run[t].pc = IF handle[2] THEN "store" ELSE "layer",
                     !.run[t].left = 1 .. WordsOf(VType(me.key))]
      /\ UNCHANGED <<keys, aliased, nodes, boxes, origin, last>>

\* handle.value = val, one word of it; return ctx after the last word.
TaskStore(t, w) ==
  LET me == tasks.run[t]
      b == me.handle[1]
      r == BoxedKeySet(Heap, me.key, me.ctx, me.val)
      mem == [tasks.mem EXCEPT ![b][w] = Words(VType(me.key), r.boxes[b])[w]]
  IN  /\ me.pc = "store"
      /\ w \in me.left
      /\ boxes' = [boxes EXCEPT ![b] = FromWords(mem[b])]
      /\ tasks' = [tasks EXCEPT
                     !.mem = mem,
                     !.run[t].left = me.left \ {w},
                     !.run[t].pc = IF me.left = {w} THEN "done" ELSE "store"]
      /\ last' = IF me.left = {w}
                   THEN [op |-> "Set", key |-> me.key, in |-> me.ctx, out |-> r.ctx,
                         val |-> me.val, values |-> <<>>]
                   ELSE last
      /\ UNCHANGED <<keys, aliased, nodes, origin>>

\* return context.WithValue(ctx, k, &Box[V]{value: val})
TaskLayer(t) ==
  LET me == tasks.run[t]
      r == BoxedKeySet(Heap, me.key, me.ctx, me.val)
  IN  /\ me.pc = "layer"
      /\ Len(nodes) < MaxNodes
      /\ nodes' = r.nodes
      /\ boxes' = r.boxes
      /\ origin' = Append(origin, [op |-> "Set", key |-> me.key, val |-> Zero])
      /\ tasks' = [tasks EXCEPT
                     !.mem = Append(tasks.mem,
                                    Words(VType(me.key), r.boxes[Len(r.boxes)])),
                     !.run[t].pc = "done"]
      /\ last' = [op |-> "Set", key |-> me.key, in |-> me.ctx, out |-> r.ctx,
                  val |-> me.val, values |-> <<>>]
      /\ UNCHANGED <<keys, aliased>>

NextRace ==
  \/ BuildRace
  \/ /\ tasks = NoTasks
     /\ \E k \in keys, c1 \in Ctxs, c2 \in Ctxs :
          \E v1 \in Vals(k), v2 \in Vals(k) : Fork(k, c1, v1, c2, v2)
  \/ /\ tasks # NoTasks
     /\ \E t \in Tasks : TaskLookup(t)
  \/ /\ tasks # NoTasks
     /\ \E t \in Tasks : \E w \in tasks.run[t].left : TaskStore(t, w)
  \/ /\ tasks # NoTasks
     /\ \E t \in Tasks : TaskLayer(t)

SpecRace == InitRace /\ [][NextRace]_vars

----
\* Both goroutines returned from Set.
RaceDone == tasks # NoTasks /\ \A t \in Tasks : tasks.run[t].pc = "done"

\* Both goroutines found cell b from their scopes.
SharedCell(b) == \A t \in Tasks : tasks.run[t].handle = <<b, TRUE>>

\* The values the two goroutines wrote.
Written == {tasks.run[t].val : t \in Tasks}

\* No step changes what ctx.Value finds for a key on a scope that exists,
\* and a goroutine's lookup found what a sequential lookup finds.
ChainLookupsAsSequential ==
  /\ [](tasks # NoTasks =>
          \A t \in Tasks :
            tasks.run[t].pc # "lookup" =>
              tasks.run[t].handle = CellOf(tasks.run[t].key, tasks.run[t].ctx))
  /\ [][ \A j \in keys, c \in Ctxs :
           CtxValue(nodes', c, KeyIdentity(j)) = CtxValue(nodes, c, KeyIdentity(j)) ]_vars

\* C13 as stated: after two goroutines wrote different values by Set through
\* scopes sharing one Cell, in either order, the value read through the
\* Cell is the value of one of them, that of the last writer; and lookups on
\* the scope chain give what they give in a sequential run.
C13_LastWriterWins ==
  /\ [](\A b \in 1 .. Len(boxes) :
          (RaceDone /\ SharedCell(b)) =>
            \A t \in Tasks :
              /\ BoxedKeyValue(Heap, tasks.run[t].key, tasks.run[t].ctx) \in Written
              /\ BoxedKeyValue(Heap, tasks.run[t].key, tasks.run[t].ctx) = last.val)
  /\ ChainLookupsAsSequential

\* C13, amended: the value read is that of the last writer when V is no
\* wider than a machine word; of a wider V each word of the Cell is the word
\* of one of the two values, and the value read is one of them or mixes
\* both; lookups on the scope chain give what they give in a sequential run.
C13_RacyWrites ==
  /\ [](\A b \in 1 .. Len(boxes) :
          (RaceDone /\ SharedCell(b)) =>
            \A t \in Tasks :
              LET k == tasks.run[t].key
                  read == BoxedKeyValue(Heap, k, tasks.run[t].ctx)
              IN  /\ read = FromWords(tasks.mem[b])
                  /\ \A i \in 1 .. WordsOf(VType(k)) :
                       tasks.mem[b][i] \in {Words(VType(k), v)[i] : v \in Written}
                  /\ WordsOf(VType(k)) = 1 => read = last.val
                  /\ read \notin Written =>
                       \E i \in 1 .. WordsOf(VType(k)), j \in 1 .. WordsOf(VType(k)) :
                         tasks.mem[b][i] # tasks.mem[b][j])
  /\ ChainLookupsAsSequential

\* Two goroutines wrote a Cell of a word-sized V through two scopes that
\* share it, and the value read is that of the goroutine started first,
\* which wrote last.
C13_Witness ==
  \E b \in 1 .. Len(boxes) :
    /\ RaceDone
    /\ SharedCell(b)
    /\ tasks.run[1].ctx # tasks.run[2].ctx
    /\ WordsOf(VType(tasks.run[1].key)) = 1
    /\ last.in = tasks.run[1].ctx
    /\ BoxedKeyValue(Heap, tasks.run[2].key, tasks.run[2].ctx) = tasks.run[1].val

====
